---- MODULE Spec2Model ----
(***************************************************************************)
(* Shanten calculation of mahjong-rs: Hand (hand.rs), HandAnalyzer         *)
(* (hand_info/hand_analyzer.rs) and Shanten (shanten/shanten.rs).          *)
(*                                                                         *)
(* A Vec<u32> is a function whose domain is 0..len-1, so that an index     *)
(* outside the domain is Rust's out-of-bounds panic.  A function that can  *)
(* panic returns a record with a field `panic`.                            *)
(*                                                                         *)
(* Two specifications:                                                     *)
(*   Spec       the public API on a Hand built by Hand::new;               *)
(*   SpecTable  the private functions of HandAnalyzer that work on a       *)
(*              count table (summarized_hand: Vec<u32>), applied to        *)
(*              34-slot tables.                                            *)
(***************************************************************************)
EXTENDS Integers, Sequences, FiniteSets, TLC

(***************************************************************************)
(* Tile indices (tile.rs is not among the sources: 34 kinds, suit-major,   *)
(* honors last, as used by `0..Tile::LEN` and `(Tile::M1..=Tile::S9)       *)
(* .step_by(9)` in hand_analyzer.rs).                                      *)
(***************************************************************************)
M1 == 0
M2 == 1
M3 == 2
M4 == 3
M5 == 4
M6 == 5
M7 == 6
M8 == 7
M9 == 8
P1 == 9
P2 == 10
P3 == 11
P4 == 12
P5 == 13
P6 == 14
P7 == 15
P8 == 16
P9 == 17
S1 == 18
S2 == 19
S3 == 20
S4 == 21
S5 == 22
S6 == 23
S7 == 24
S8 == 25
S9 == 26
Z1 == 27
Z2 == 28
Z3 == 29
Z4 == 30
Z5 == 31
Z6 == 32
Z7 == 33
LEN == 34

(***************************************************************************)
(* Bounds of the inputs.                                                   *)
(***************************************************************************)
\* copies of one kind in an input
MaxCopies == 4
\* tiles of an input that lie in the numeric window M9..P3
MaxSuitTiles == 6

Kinds == M1..Z7

Min2(a, b) == IF b < a THEN b ELSE a

\* f[lo] + ... + f[hi]
RECURSIVE SumOver(_, _, _)
SumOver(f, lo, hi) == IF lo > hi THEN 0 ELSE f[lo] + SumOver(f, lo + 1, hi)

\* the least element of a non-empty set of numbers
Least(S) == CHOOSE x \in S : \A y \in S : x <= y

(***************************************************************************)
(* hand.rs                                                                 *)
(***************************************************************************)
NoHand == [none |-> TRUE]

\* Option<Tile>: <<>> is None, <<d>> is Some(d)
None == << >>

\* Hand::new
Hand_new_accepts14(tiles, drawn) ==
    IF Len(tiles) < 13
    THEN [panic |-> TRUE, hand |-> NoHand]
    ELSE [panic |-> FALSE, hand |-> [tiles |-> tiles, drawn |-> drawn, meld |-> << >>]]

Hand_new(tiles, drawn) ==
    IF Len(tiles) # 13
    THEN [panic |-> TRUE, hand |-> NoHand]
    ELSE [panic |-> FALSE, hand |-> [tiles |-> tiles, drawn |-> drawn, meld |-> << >>]]

\* vec!(0, Tile::LEN as u32): the two-element vector [0, 34]
vec_0_LEN == [j \in 0..1 |-> IF j = 0 THEN 0 ELSE LEN]

PanicVec == [panic |-> TRUE, vec |-> << >>]

\* result[x.get() as usize] += 1 for every x of s, in order
RECURSIVE AddTiles(_, _)
AddTiles(result, s) ==
    IF s = << >> THEN [panic |-> FALSE, vec |-> result]
    ELSE IF Head(s) \notin DOMAIN result THEN PanicVec
    ELSE AddTiles([result EXCEPT ![Head(s)] = @ + 1], Tail(s))

\* the tiles of all melds, in the order of the nested loops
RECURSIVE MeldTiles(_)
MeldTiles(meld) ==
    IF meld = << >> THEN << >> ELSE Head(meld).tiles \o MeldTiles(Tail(meld))

\* Hand::summarize_tiles
summarize_tiles(h) ==
    AddTiles(vec_0_LEN, h.tiles \o MeldTiles(h.meld) \o h.drawn)

(***************************************************************************)
(* hand_analyzer.rs: the bodies of the three evaluators after              *)
(* `let t = hand.summarize_tiles()`, on a Vec<u32> t.                      *)
(***************************************************************************)
PanicNum == [panic |-> TRUE, num |-> 0]
Ok(n) == [panic |-> FALSE, num |-> n]

\* calc_seven_pairs, lines 86-99 (pair <= 7 for the at most 15 tiles of the
\* inputs, so the u32 subtraction 7 - pair does not wrap)
seven_pairs_of(t) ==
    IF \E i \in 0..(LEN - 1) : i \notin DOMAIN t THEN PanicNum
    ELSE LET kind == Cardinality({i \in 0..(LEN - 1) : t[i] > 0})
             pair == Cardinality({i \in 0..(LEN - 1) : t[i] > 0 /\ t[i] >= 2})
             num_to_win == 7 - pair + (IF kind < 7 THEN 7 - kind ELSE 0)
         IN  Ok(num_to_win - 1)

to_tiles == <<M1, M9, P1, P9, S1, S9, Z1, Z2, Z3, Z4, Z5, Z6, Z7>>

\* calc_thirteen_orphens, lines 104-132
thirteen_orphens_of(t) ==
    IF \E n \in 1..Len(to_tiles) : to_tiles[n] \notin DOMAIN t THEN PanicNum
    ELSE LET held == {n \in 1..Len(to_tiles) : t[to_tiles[n]] > 0}
             kind == Cardinality(held)
             pair == Cardinality({n \in held : t[to_tiles[n]] >= 2})
             num_to_win == 14 - kind - (IF pair > 0 THEN 1 ELSE 0)
         IN  Ok(num_to_win - 1)

(***************************************************************************)
(* hand_analyzer.rs: extraction of the independent blocks.                 *)
(* A condition `a && b && c` over slots of the table is a sequence of      *)
(* tests read left to right: the first test that fails ends it (false)     *)
(* and a slot outside the vector ends it with a panic.                     *)
(***************************************************************************)
T(off, op, val) == [off |-> off, op |-> op, val |-> val]

Holds(x, c) == IF c.op = "eq" THEN x = c.val ELSE x >= c.val

Chain(t, i, cs) ==
    LET stop == {n \in 1..Len(cs) :
                    \/ (i + cs[n].off) \notin DOMAIN t
                    \/ ~Holds(t[i + cs[n].off], cs[n])}
    IN  IF stop = {} THEN "true"
        ELSE LET n == Least(stop)
             IN  IF (i + cs[n].off) \notin DOMAIN t THEN "panic" ELSE "false"

\* the arms of `match i` in count_independent_same_3 (own = `>= 3`) and in
\* count_independent_single (own = `== 1`); << >> is the arm `_ => panic!`
ArmTests(i, own) ==
    CASE i \in {M1, P1, S1} -> <<own, T(1, "eq", 0), T(2, "eq", 0)>>
      [] i \in {M2, P2, S2} -> <<T(-1, "eq", 0), own, T(1, "eq", 0), T(2, "eq", 0)>>
      [] i \in (M3..M7) \cup (P3..P7) \cup (S3..S7) ->
            <<T(-2, "eq", 0), T(-1, "eq", 0), own, T(1, "eq", 0), T(2, "eq", 0)>>
      [] i \in {M8, P8, S8} -> <<T(-2, "eq", 0), T(-1, "eq", 0), own, T(1, "eq", 0)>>
      [] i \in {M9, P9, S9} -> <<T(-2, "eq", 0), T(-1, "eq", 0), own>>
      [] i \in Z1..Z7 -> <<own>>
      [] OTHER -> << >>

PanicExt == [panic |-> TRUE, t |-> << >>, result |-> 0]

\* the condition of the arm of kind i
ArmCond(t, i, own) ==
    LET cs == ArmTests(i, own) IN IF cs = << >> THEN "panic" ELSE Chain(t, i, cs)

\* one pass `for i in Tile::M1..=Tile::Z7`, from kind i on, taking n tiles of
\* a kind when its arm's condition holds.  An iteration whose condition is
\* false changes nothing, so the pass goes straight to the next kind j whose
\* condition is not false.
RECURSIVE IndependentPass(_, _, _, _, _)
IndependentPass(i, t, result, own, n) ==
    LET act == {j \in i..Z7 : ArmCond(t, j, own) # "false"}
    IN  IF act = {} THEN [panic |-> FALSE, t |-> t, result |-> result]
        ELSE LET j == Least(act)
             IN  IF ArmCond(t, j, own) = "panic" THEN PanicExt
                 ELSE IndependentPass(j + 1, [t EXCEPT ![j] = @ - n], result + 1, own, n)

\* count_independent_same_3
count_independent_same_3(t) == IndependentPass(M1, t, 0, T(0, "ge", 3), 3)

\* count_independent_single
count_independent_single_any(t) == IndependentPass(M1, t, 0, T(0, "ge", 1), 1)

count_independent_single(t) == IndependentPass(M1, t, 0, T(0, "eq", 1), 1)

\* the nested loops of count_independent_sequential_3, in order:
\* for i in (1..=2).rev(), for j in (M1..=S9).step_by(9), for k in 0..=6
Seq3Steps == 42
Seq3I(n) == IF n <= 21 THEN 2 ELSE 1
Seq3J(n) == M1 + 9 * (((n - 1) % 21) \div 7)
Seq3K(n) == (n - 1) % 7

\* the four `continue` tests and the final condition for l = j + k
Seq3Tests(i, k) ==
       (IF k >= 2 THEN <<T(-2, "eq", 0)>> ELSE << >>)
    \o (IF k >= 1 THEN <<T(-1, "eq", 0)>> ELSE << >>)
    \o (IF k <= 5 THEN <<T(3, "eq", 0)>> ELSE << >>)
    \o (IF k <= 4 THEN <<T(4, "eq", 0)>> ELSE << >>)
    \o <<T(0, "eq", i), T(1, "eq", i), T(2, "eq", i)>>

Seq3Cond(t, n) == Chain(t, Seq3J(n) + Seq3K(n), Seq3Tests(Seq3I(n), Seq3K(n)))

\* the loops from step n on; steps whose condition is false change nothing
RECURSIVE Seq3Pass(_, _, _)
Seq3Pass(n, t, result) ==
    LET act == {m \in n..Seq3Steps : Seq3Cond(t, m) # "false"}
    IN  IF act = {} THEN [panic |-> FALSE, t |-> t, result |-> result]
        ELSE LET m == Least(act)
                 i == Seq3I(m)
                 l == Seq3J(m) + Seq3K(m)
             IN  IF Seq3Cond(t, m) = "panic" THEN PanicExt
                 ELSE Seq3Pass(m + 1,
                               [t EXCEPT ![l] = @ - i, ![l + 1] = @ - i, ![l + 2] = @ - i],
                               result + i)

\* count_independent_sequential_3
count_independent_sequential_3(t) == Seq3Pass(1, t, 0)

(***************************************************************************)
(* hand_analyzer.rs: the recursive search.  c holds the six counters       *)
(* passed by value; st.t is the shared table (&mut Vec<u32>) and st.leaf   *)
(* records the least value of calc_normal_shanten over the calls made so   *)
(* far (a history of the run, not read by the code).                       *)
(***************************************************************************)
calc_normal_shanten_off_by_one(c) ==
    LET block3 == c.independent_same3 + c.independent_sequential3 + c.same3 + c.sequential3
        block2 == c.same2 + c.sequential2
    IN  7 - (block3 * 2 + block2)

calc_normal_shanten(c) ==
    LET block3 == c.independent_same3 + c.independent_sequential3 + c.same3 + c.sequential3
        block2 == c.same2 + c.sequential2
    IN  8 - (block3 * 2 + block2)

\* the numeric kinds of rank 1..7, as tested at line 451
Rank1to7_to9(i) ==
    \/ (i >= M1 /\ i <= M9)
    \/ (i >= P1 /\ i <= P9)
    \/ (i >= S1 /\ i <= S9)

Rank1to7(i) ==
    \/ (i >= M1 /\ i <= M7)
    \/ (i >= P1 /\ i <= P7)
    \/ (i >= S1 /\ i <= S7)

\* the test at line 517, with the precedence of && over ||
Count2Numeric(i) ==
    \/ (i <= S9 /\ (i >= M1 /\ i <= M7))
    \/ (i >= P1 /\ i <= P7)
    \/ (i >= S1 /\ i <= S7)

\* the kinds k and i lie in one suit (an honor kind is a suit of its own)
InSuit(i, k) ==
    /\ i \in Kinds
    /\ k \in Kinds
    /\ (k = i \/ (i < Z1 /\ k < Z1 /\ (i \div 9) = (k \div 9)))

\* the number of tiles of a table
Total(tb) == SumOver(tb, M1, Z7)

\* the state of a search: the shared table t and the history of the run
\*   leaf      least value of calc_normal_shanten over the calls so far
\*   restored  every call so far returned with the table it was called with
\*   smaller   every nested call so far got a table of counts with exactly
\*             the tiles of its block fewer than its caller's
\*   insuit    every run and partial sequence taken so far lies in one suit
\*   depth     calls of count_normal_shanten_by_recursive now open
\*   deepest   the greatest depth so far
Start(t) ==
    [t |-> t, leaf |-> 100, restored |-> TRUE, smaller |-> TRUE, insuit |-> TRUE,
     depth |-> 0, deepest |-> 0]

\* `summarized_hand[j] -= n` before a nested call: n tiles of kind j
Take(st, j, n) == [st EXCEPT !.t[j] = @ - n]

\* one tile of each of the kinds j and k (j # k)
Take2(st, j, k) == [st EXCEPT !.t[j] = @ - 1, !.t[k] = @ - 1]

\* one tile of each of the kinds j, j+1, j+2
Take3(st, j) == [st EXCEPT !.t[j] = @ - 1, !.t[j + 1] = @ - 1, !.t[j + 2] = @ - 1]

\* `summarized_hand[j] += n` after the nested call
Restore_one(st, j, n) == [st EXCEPT !.t[j] = @ + 1]

Restore(st, j, n) == [st EXCEPT !.t[j] = @ + n]

Restore2(st, j, k) == [st EXCEPT !.t[j] = @ + 1, !.t[k] = @ + 1]

Restore3(st, j) == [st EXCEPT !.t[j] = @ + 1, !.t[j + 1] = @ + 1, !.t[j + 2] = @ + 1]

\* the table new holds exactly n tiles fewer than the table old, all of them
\* of the kinds lo..hi (at most three), and is a table of counts (no
\* subtraction wrapped)
Fewer(old, new, n, lo, hi) ==
    /\ [new EXCEPT ![lo] = old[lo], ![(lo + hi) \div 2] = old[(lo + hi) \div 2],
                   ![hi] = old[hi]] = old
    /\ \A k \in lo..hi : new[k] >= 0 /\ new[k] <= old[k]
    /\ SumOver(old, lo, hi) - SumOver(new, lo, hi) = n

\* the history at a nested call: old is the caller's state, new the state
\* passed on, n the number of tiles of the block taken, lo..hi its kinds
Nested(old, new, n, lo, hi) ==
    [new EXCEPT !.smaller = @ /\ Fewer(old.t, new.t, n, lo, hi),
                !.insuit = @ /\ InSuit(lo, hi)]

RECURSIVE count_normal_shanten_by_recursive(_, _, _, _)
RECURSIVE Count3Loop(_, _, _, _, _)
RECURSIVE Count2Loop(_, _, _, _, _)

\* the two conditions of one iteration of count_same_or_sequential_3
Take3Same(t, i) == t[i] >= 3
Take3Seq(t, i) == Rank1to7(i) /\ t[i] >= 1 /\ t[i + 1] >= 1 /\ t[i + 2] >= 1

\* count_same_or_sequential_3: its loop `for i in idx..=Tile::Z7` from i on.
\* An iteration in which neither condition holds changes nothing, so the loop
\* goes straight to the next kind j at which one holds (both need a tile of
\* kind j).  a is the state after the triplet of kind j (lines 431-448), b
\* after the run j, j+1, j+2 (lines 451-478).  It returns the search state
\* (the pair the code returns is (same3, sequential3) as passed in).
Count3Loop(i, idx, c, st, shanten_min) ==
    LET act == {j \in i..Z7 : st.t[j] > 0 /\ (Take3Same(st.t, j) \/ Take3Seq(st.t, j))}
    IN  IF act = {} THEN st
        ELSE LET j == Least(act)
                 a == IF Take3Same(st.t, j)
                      THEN Restore(count_normal_shanten_by_recursive(
                                       j, [c EXCEPT !.same3 = @ + 1],
                                       Nested(st, Take(st, j, 3), 3, j, j),
                                       shanten_min).st,
                                   j, 3)
                      ELSE st
                 b == IF Take3Seq(a.t, j)
                      THEN Restore3(count_normal_shanten_by_recursive(
                                       j, [c EXCEPT !.sequential3 = @ + 1],
                                       Nested(a, Take3(a, j), 3, j, j + 2),
                                       shanten_min).st,
                                    j)
                      ELSE a
             IN  Count3Loop(j + 1, idx, c, b, shanten_min)

count_same_or_sequential_3(idx, c, st, shanten_min) ==
    Count3Loop(idx, idx, c, st, shanten_min)

\* the three conditions of one iteration of count_2
Take2Same(t, i) == t[i] = 2
Take2Next_unchecked(t, i) == Count2Numeric(i) /\ t[i] >= 1
Take2Next(t, i) == Count2Numeric(i) /\ t[i] >= 1 /\ t[i + 1] >= 1
Take2Gap(t, i) == Count2Numeric(i) /\ t[i] >= 1 /\ t[i + 1] = 0 /\ t[i + 2] >= 1

\* count_2: its loop `for i in idx..=Tile::Z7` from i on, skipping the
\* iterations in which no condition holds; the recursive calls are made with
\* idx, not with the kind of the block taken.  a is the state after the pair
\* of kind j (lines 499-515), b after the partial sequence j, j+1 (lines
\* 522-540), d after the partial sequence j, j+2 (lines 542-563).
Count2Loop(i, idx, c, st, shanten) ==
    LET act == {j \in i..Z7 :
                   /\ st.t[j] > 0
                   /\ (Take2Same(st.t, j) \/ Take2Next(st.t, j) \/ Take2Gap(st.t, j))}
    IN  IF act = {} THEN st
        ELSE LET j == Least(act)
                 a == IF Take2Same(st.t, j)
                      THEN Restore(count_normal_shanten_by_recursive(
                                       idx, [c EXCEPT !.same2 = @ + 1],
                                       Nested(st, Take(st, j, 2), 2, j, j), shanten).st,
                                   j, 2)
                      ELSE st
                 b == IF Take2Next(a.t, j)
                      THEN Restore2(count_normal_shanten_by_recursive(
                                       idx, [c EXCEPT !.sequential2 = @ + 1],
                                       Nested(a, Take2(a, j, j + 1), 2, j, j + 1),
                                       shanten).st,
                                    j, j + 1)
                      ELSE a
                 d == IF Take2Gap(b.t, j)
                      THEN Restore2(count_normal_shanten_by_recursive(
                                       idx, [c EXCEPT !.sequential2 = @ + 1],
                                       Nested(b, Take2(b, j, j + 2), 2, j, j + 2),
                                       shanten).st,
                                    j, j + 2)
                      ELSE b
             IN  Count2Loop(j + 1, idx, c, d, shanten)

count_2(idx, c, st, shanten) == Count2Loop(idx, idx, c, st, shanten)

\* the history when count_normal_shanten_by_recursive is entered
Enter(st) ==
    [st EXCEPT !.depth = @ + 1,
               !.deepest = IF st.depth + 1 > @ THEN st.depth + 1 ELSE @]

\* count_normal_shanten_by_recursive: the values returned by the two calls
\* are dropped; shanten_min is a by-value parameter.  a is the state when
\* count_same_or_sequential_3 returns, b when count_2 returns.
count_normal_shanten_by_recursive(idx, c, st, shanten_min) ==
    LET a == count_same_or_sequential_3(idx, c, Enter(st), shanten_min)
        b == count_2(idx, c, a, shanten_min)
        shanten == calc_normal_shanten(c)
    IN  [st  |-> [b EXCEPT !.leaf = Min2(@, shanten),
                           !.depth = @ - 1,
                           !.restored = @ /\ a.t = st.t /\ b.t = st.t],
         ret |-> IF shanten < shanten_min THEN shanten ELSE shanten_min]

PanicNF == [panic |-> TRUE, num |-> 0]

Counters(is3, iq3, s2) ==
    [independent_same3 |-> is3, independent_sequential3 |-> iq3,
     same3 |-> 0, sequential3 |-> 0, same2 |-> s2, sequential2 |-> 0]

\* the loop of calc_normal_form that tries each kind as the head, lines 151-169
\* (from kind i on, going straight to the next kind held at least twice)
RECURSIVE HeadLoop(_, _, _, _, _)
HeadLoop(i, is3, iq3, st, shanten) ==
    LET act == {j \in i..Z7 : st.t[j] >= 2}
    IN  IF act = {} THEN [st |-> st, shanten |-> shanten]
        ELSE LET j == Least(act)
                 r == count_normal_shanten_by_recursive(
                          0, Counters(is3, iq3, 1), Take(st, j, 2), shanten)
                 back == Restore(r.st, j, 2)
             IN  HeadLoop(j + 1, is3, iq3,
                          [back EXCEPT !.restored = @ /\ back.t = st.t], r.ret)

\* calc_normal_form, lines 138-183, on the table t0 returned by summarize_tiles,
\* in the order of its steps; a, b, c are the outcomes of the three extraction
\* passes, h that of the head loop and r that of the last search call.
NormalResult(a, b, c, r) ==
    [panic |-> FALSE, num |-> r.ret,
     independent_same3 |-> a.result,
     independent_sequential3 |-> b.result,
     independent_single |-> c.result,
     extracted |-> c.t, final |-> r.st.t, leaf |-> r.st.leaf,
     restored |-> r.st.restored, smaller |-> r.st.smaller,
     insuit |-> r.st.insuit, deepest |-> r.st.deepest]

\* lines 172-183: the search without a head, then `return shanten`
NormalNoHead(a, b, c, h) ==
    NormalResult(a, b, c,
                 count_normal_shanten_by_recursive(
                     0, Counters(a.result, b.result, 0), h.st, h.shanten))

\* lines 151-169.  The head loop reads t[i] for every i of M1..=Z7 and the
\* search reads no other slot, so a table that lacks one of the 34 slots ends
\* in a panic there.
NormalHeads(a, b, c) ==
    IF c.panic THEN PanicNF
    ELSE IF \E i \in M1..Z7 : i \notin DOMAIN c.t THEN PanicNF
    ELSE NormalNoHead(a, b, c,
                      HeadLoop(M1, a.result, b.result, Start(c.t), 100))

\* line 148
NormalSingle(a, b) ==
    IF b.panic THEN PanicNF ELSE NormalHeads(a, b, count_independent_single(b.t))

\* line 147
NormalSequential3(a) ==
    IF a.panic THEN PanicNF ELSE NormalSingle(a, count_independent_sequential_3(a.t))

\* line 146
normal_form_of(t0) == NormalSequential3(count_independent_same_3(t0))

(***************************************************************************)
(* hand_analyzer.rs and shanten.rs: the functions on a Hand.               *)
(***************************************************************************)
Forms == {"SevenPairs", "ThirteenOrphens", "Normal"}

\* HandAnalyzer::calc_seven_pairs
calc_seven_pairs(h) ==
    LET s == summarize_tiles(h) IN IF s.panic THEN PanicNum ELSE seven_pairs_of(s.vec)

\* HandAnalyzer::calc_thirteen_orphens
calc_thirteen_orphens(h) ==
    LET s == summarize_tiles(h) IN IF s.panic THEN PanicNum ELSE thirteen_orphens_of(s.vec)

\* `return shanten` of calc_normal_form, if it is reached
NumOf(r) == IF r.panic THEN PanicNum ELSE Ok(r.num)

\* HandAnalyzer::calc_normal_form
calc_normal_form(h) ==
    LET s == summarize_tiles(h)
    IN  IF s.panic THEN PanicNum
        ELSE NumOf(normal_form_of(s.vec))

PanicCalc == [panic |-> TRUE, shanten |-> 0, form |-> "none"]

Shaped(r, form) ==
    IF r.panic THEN PanicCalc ELSE [panic |-> FALSE, shanten |-> r.num, form |-> form]

\* HandAnalyzer::calc_by_form
HandAnalyzer_calc_by_form(h, form) ==
    CASE form = "SevenPairs" -> Shaped(calc_seven_pairs(h), form)
      [] form = "ThirteenOrphens" -> Shaped(calc_thirteen_orphens(h), form)
      [] form = "Normal" -> Shaped(calc_normal_form(h), form)

\* std::cmp::min under `impl Ord`, which compares shanten only: the first
\* argument is returned unless the second is strictly smaller
OrdMin(x, y) == IF y.shanten < x.shanten THEN y ELSE x

\* the three calls are made in order, so the first panic ends the call
MinOfThree(sp, to, normal) ==
    IF sp.panic \/ to.panic \/ normal.panic THEN PanicCalc
    ELSE OrdMin(OrdMin(sp, to), normal)

\* HandAnalyzer::calc
HandAnalyzer_calc(h) ==
    MinOfThree(HandAnalyzer_calc_by_form(h, "SevenPairs"),
               HandAnalyzer_calc_by_form(h, "ThirteenOrphens"),
               HandAnalyzer_calc_by_form(h, "Normal"))

\* Shanten::calc_seven_pairs (the same text as HandAnalyzer::calc_seven_pairs)
Shanten_calc_seven_pairs(h) ==
    LET s == summarize_tiles(h) IN IF s.panic THEN PanicNum ELSE seven_pairs_of(s.vec)

\* Shanten::calc_thirteen_orphens (the same text as in HandAnalyzer)
Shanten_calc_thirteen_orphens(h) ==
    LET s == summarize_tiles(h) IN IF s.panic THEN PanicNum ELSE thirteen_orphens_of(s.vec)

\* Shanten::calc_normal_form: unimplemented!()
Shanten_calc_normal_form(h) == PanicNum

\* Shanten::calc_by_form (the field is called num there)
Shanten_calc_by_form(h, form) ==
    CASE form = "SevenPairs" -> Shaped(Shanten_calc_seven_pairs(h), form)
      [] form = "ThirteenOrphens" -> Shaped(Shanten_calc_thirteen_orphens(h), form)
      [] form = "Normal" -> Shaped(Shanten_calc_normal_form(h), form)

\* Shanten::calc
Shanten_calc(h) ==
    MinOfThree(Shanten_calc_by_form(h, "SevenPairs"),
               Shanten_calc_by_form(h, "ThirteenOrphens"),
               Shanten_calc_by_form(h, "Normal"))

(***************************************************************************)
(* Inputs.  A count table of the inputs holds at most MaxCopies tiles of   *)
(* a kind: up to MaxSuitTiles tiles in the numeric window M9..P3 (the end  *)
(* of one suit and the start of the next) and honors for the rest, with    *)
(* at most MaxHonorPairs honor kinds held twice.  The hands of the         *)
(* repository's tests are inputs of Hand::new too, and the table of the    *)
(* test of the normal form is one of the tables.                           *)
(***************************************************************************)
\* honor kinds of an input held exactly twice
MaxHonorPairs == 1

SuitLo == M9
SuitHi == P3
HonorWindow == <<Z1, Z2, Z3, Z7>>

SuitParts ==
    {f \in [SuitLo..SuitHi -> 0..MaxCopies] : SumOver(f, SuitLo, SuitHi) <= MaxSuitTiles}

\* honor counts, without the permutations of the honor kinds
HonorParts ==
    {g \in [1..Len(HonorWindow) -> 0..MaxCopies] :
        /\ \A n \in 1..(Len(HonorWindow) - 1) : g[n] >= g[n + 1]
        /\ Cardinality({n \in DOMAIN g : g[n] = 2}) <= MaxHonorPairs}

TableOf(f, g) ==
    [k \in Kinds |->
        IF k \in SuitLo..SuitHi THEN f[k]
        ELSE IF \E n \in DOMAIN g : HonorWindow[n] = k
             THEN g[CHOOSE n \in DOMAIN g : HonorWindow[n] = k]
             ELSE 0]

Rep(k, n) == [j \in 1..n |-> k]

\* the tiles of a table from kind k on, in ascending order
RECURSIVE TilesFrom(_, _)
TilesFrom(tb, k) ==
    IF k > Z7 THEN << >> ELSE Rep(k, tb[k]) \o TilesFrom(tb, k + 1)

\* the table of a sequence of tiles
CountsOf(s) == [k \in Kinds |-> Cardinality({n \in DOMAIN s : s[n] = k})]

\* the hand of the test win_by_riichi, "123m456p789s1112z 2z"
RiichiInput ==
    [tiles |-> <<M1, M2, M3, P4, P5, P6, S7, S8, S9, Z1, Z1, Z1, Z2>>, drawn |-> <<Z2>>]

\* the hands of the tests of hand_analyzer.rs, as (13 tiles, drawn tile)
TestInputs ==
    { [tiles |-> <<M1, M1, M2, M2, P3, P3, P4, P4, S5, S5, S6, S6, Z1>>, drawn |-> <<Z1>>],
      [tiles |-> <<M1, M9, P1, P9, S1, S9, Z1, Z2, Z3, Z4, Z5, Z6, Z7>>, drawn |-> <<M1>>],
      [tiles |-> <<M2, M2, M6, M6, M9, M9, P9, P9, S2, S2, S8, Z6, Z6>>, drawn |-> <<Z1>>],
      [tiles |-> <<M2, M2, M6, M6, M9, M9, P9, P9, S2, S2, S2, Z6, Z6>>, drawn |-> <<Z1>>],
      [tiles |-> <<M1, M9, P1, P9, S1, S1, Z1, Z2, Z3, Z4, Z5, Z6, Z7>>, drawn |-> <<M5>>],
      [tiles |-> <<M1, M1, M2, M2, P3, P3, P4, P4, S5, S5, S5, S5, Z1>>, drawn |-> <<Z1>>],
      RiichiInput }

\* the count tables of 13 or 14 tiles
Tables ==
    {TableOf(p[1], p[2]) : p \in
        {q \in SuitParts \X HonorParts :
            SumOver(q[1], SuitLo, SuitHi) + SumOver(q[2], 1, Len(HonorWindow)) \in {13, 14}}}
    \cup {CountsOf(RiichiInput.tiles \o RiichiInput.drawn)}

\* s without its n-th element
Without(s, n) == SubSeq(s, 1, n - 1) \o SubSeq(s, n + 1, Len(s))

\* the first position of each kind in a sorted sequence of tiles
Firsts(s) == {n \in DOMAIN s : n = 1 \/ s[n - 1] # s[n]}

\* 13 tiles of the kinds M1 and M2 only, which Hand::new accepts as any others
LowInput == [tiles |-> Rep(M1, 7) \o Rep(M2, 6), drawn |-> <<M1>>]

\* the arguments given to Hand::new: 13 tiles with or without a drawn tile,
\* and vectors of 12 and of 14 tiles
Inputs ==
    TestInputs
    \cup {LowInput}
    \cup {[tiles |-> TilesFrom(tb, M1), drawn |-> None] : tb \in Tables}
    \cup {[tiles |-> Without(TilesFrom(tb, M1), 1), drawn |-> None] :
             tb \in {x \in Tables : Total(x) = 13}}
    \cup UNION {
           {[tiles |-> Without(TilesFrom(tb, M1), n), drawn |-> <<TilesFrom(tb, M1)[n]>>] :
               n \in Firsts(TilesFrom(tb, M1))} : tb \in {x \in Tables : Total(x) = 14}}

(***************************************************************************)
(* State.                                                                  *)
(*   arg   the arguments of the call of Hand::new                          *)
(*   hand  the Hand it returned (NoHand before the call and after a panic) *)
(*   tin   the count table given to the private functions (SpecTable)      *)
(*   out   the outcome of the last call                                    *)
(* The functions called on a hand take &Hand and change nothing, so a      *)
(* behaviour makes one call on the hand it built.                          *)
(***************************************************************************)
VARIABLES arg, hand, tin, out

vars == <<arg, hand, tin, out>>

NoArg == [none |-> TRUE]
NoTable == << >>
NoOut == [op |-> "none"]

Init ==
    /\ arg = NoArg
    /\ hand = NoHand
    /\ tin = NoTable
    /\ out = NoOut

\* let hand = Hand::new(tiles, drawn)
New ==
    /\ arg = NoArg
    /\ \E x \in Inputs :
          LET r == Hand_new(x.tiles, x.drawn)
          IN  /\ arg' = x
              /\ hand' = r.hand
              /\ out' = [op |-> "Hand::new", panic |-> r.panic]
    /\ UNCHANGED tin

\* hand.summarize_tiles()
SummarizeTiles ==
    /\ hand # NoHand
    /\ out.op = "Hand::new"
    /\ out' = [op |-> "summarize_tiles"] @@ summarize_tiles(hand)
    /\ UNCHANGED <<arg, hand, tin>>

\* HandAnalyzer::calc_by_form(&hand, form)
CalcByForm ==
    /\ hand # NoHand
    /\ out.op = "Hand::new"
    /\ \E form \in Forms :
          out' = [op |-> "HandAnalyzer::calc_by_form", asked |-> form]
                 @@ HandAnalyzer_calc_by_form(hand, form)
    /\ UNCHANGED <<arg, hand, tin>>

\* HandAnalyzer::calc(&hand)
Calc ==
    /\ hand # NoHand
    /\ out.op = "Hand::new"
    /\ out' = [op |-> "HandAnalyzer::calc"] @@ HandAnalyzer_calc(hand)
    /\ UNCHANGED <<arg, hand, tin>>

\* Shanten::calc_by_form(&hand, form)
ShantenCalcByForm ==
    /\ hand # NoHand
    /\ out.op = "Hand::new"
    /\ \E form \in Forms :
          out' = [op |-> "Shanten::calc_by_form", asked |-> form]
                 @@ Shanten_calc_by_form(hand, form)
    /\ UNCHANGED <<arg, hand, tin>>

\* Shanten::calc(&hand)
ShantenCalc ==
    /\ hand # NoHand
    /\ out.op = "Hand::new"
    /\ out' = [op |-> "Shanten::calc"] @@ Shanten_calc(hand)
    /\ UNCHANGED <<arg, hand, tin>>

Next ==
    \/ New
    \/ SummarizeTiles
    \/ CalcByForm
    \/ Calc
    \/ ShantenCalcByForm
    \/ ShantenCalc

Spec == Init /\ [][Next]_vars

(***************************************************************************)
(* SpecTable: the private functions on a 34-slot count table.              *)
(***************************************************************************)
InitTable ==
    /\ arg = NoArg
    /\ hand = NoHand
    /\ tin \in Tables
    /\ out = NoOut

\* the body of calc_seven_pairs on the table
TableSevenPairs ==
    /\ out = NoOut
    /\ out' = [op |-> "calc_seven_pairs"] @@ seven_pairs_of(tin)
    /\ UNCHANGED <<arg, hand, tin>>

\* the body of calc_thirteen_orphens on the table
TableThirteenOrphens ==
    /\ out = NoOut
    /\ out' = [op |-> "calc_thirteen_orphens"] @@ thirteen_orphens_of(tin)
    /\ UNCHANGED <<arg, hand, tin>>

\* the body of calc_normal_form on the table
TableNormalForm ==
    /\ out = NoOut
    /\ out' = [op |-> "calc_normal_form"] @@ normal_form_of(tin)
    /\ UNCHANGED <<arg, hand, tin>>

NextTable ==
    \/ TableSevenPairs
    \/ TableThirteenOrphens
    \/ TableNormalForm

SpecTable == InitTable /\ [][NextTable]_vars

(***************************************************************************)
(* SpecWhole: calc_normal_form's body on a table, beside the same head     *)
(* trials and search run on the whole table, no block extracted first.     *)
(***************************************************************************)
\* honor kinds held exactly twice in a table searched whole
MaxWholeHonorPairs == 0

WholeTables ==
    {t \in Tables : Cardinality({k \in Z1..Z7 : t[k] = 2}) <= MaxWholeHonorPairs}

\* a pass that extracted nothing from the table t
Unextracted(t) == [panic |-> FALSE, t |-> t, result |-> 0]

\* the head trials and the last search of calc_normal_form (lines 151-182) on
\* the whole table t0, no block fixed beforehand
SearchWithoutExtraction(t0) ==
    NormalHeads(Unextracted(t0), Unextracted(t0), Unextracted(t0))

InitWhole ==
    /\ arg = NoArg
    /\ hand = NoHand
    /\ tin \in WholeTables
    /\ out = NoOut

\* the body of calc_normal_form on the table, and the search of the whole table
TableWholeSearch ==
    /\ out = NoOut
    /\ out' = [op |-> "calc_normal_form", whole |-> SearchWithoutExtraction(tin).leaf]
                  @@ normal_form_of(tin)
    /\ UNCHANGED <<arg, hand, tin>>

NextWhole == TableWholeSearch

SpecWhole == InitWhole /\ [][NextWhole]_vars

(***************************************************************************)
(* What the claims speak of, stated without the code: the tiles a hand     *)
(* holds and the complete standard hand.                                   *)
(***************************************************************************)
\* the number of tiles of each kind among the concealed tiles, the melds and
\* the drawn tile
HandCounts(h) == CountsOf(h.tiles \o MeldTiles(h.meld) \o h.drawn)

\* a run can start at kind i: a numeric kind of rank 1..7
RunStart(i) == i < Z1 /\ (i % 9) <= 6

\* tb splits into n3 3-blocks (triplets, same-suit runs) and, if pair, one pair
RECURSIVE Splits(_, _, _)
Splits(tb, n3, pair) ==
    LET held == {k \in Kinds : tb[k] > 0}
    IN  IF held = {} THEN n3 = 0 /\ ~pair
        ELSE LET i == Least(held)
             IN  \/ /\ n3 > 0
                    /\ tb[i] >= 3
                    /\ Splits([tb EXCEPT ![i] = @ - 3], n3 - 1, pair)
                 \/ /\ pair
                    /\ tb[i] >= 2
                    /\ Splits([tb EXCEPT ![i] = @ - 2], n3, FALSE)
                 \/ /\ n3 > 0
                    /\ RunStart(i)
                    /\ tb[i + 1] > 0
                    /\ tb[i + 2] > 0
                    /\ Splits([tb EXCEPT ![i] = @ - 1, ![i + 1] = @ - 1, ![i + 2] = @ - 1],
                              n3 - 1, pair)

\* four 3-blocks and one pair
IsComplete(tb) == Splits(tb, 4, TRUE)

IsQuery(form) == out.op = "HandAnalyzer::calc_by_form" /\ out.asked = form

\* C1: a hand of 13 tiles and a drawn tile that splits into four 3-blocks and
\* a pair gets shanten -1 from calc_by_form(hand, Normal)
C1_CompleteHandIsMinusOne ==
    (IsQuery("Normal") /\ hand.drawn # None /\ IsComplete(HandCounts(hand)))
        => (~out.panic /\ out.shanten = -1)

\* C2: the value calc_normal_form returns is the least value of
\* 8 - 2*block3 - block2 over all calls of count_normal_shanten_by_recursive
C2_ReturnsLeastOverSearch ==
    (out.op = "calc_normal_form") => (~out.panic /\ out.num = out.leaf)

\* C3: calc(hand).shanten is the least of the three calc_by_form(hand, f).shanten
C3_CalcIsLeastOfThree ==
    (out.op = "HandAnalyzer::calc") =>
        LET sp == HandAnalyzer_calc_by_form(hand, "SevenPairs")
            to == HandAnalyzer_calc_by_form(hand, "ThirteenOrphens")
            normal == HandAnalyzer_calc_by_form(hand, "Normal")
        IN  /\ ~out.panic
            /\ ~sp.panic /\ ~to.panic /\ ~normal.panic
            /\ out.shanten = Min2(Min2(sp.shanten, to.shanten), normal.shanten)

\* C4: calc_normal_form reports -1 only for a table that splits into four
\* 3-blocks and a pair, and never reports less than -1
C4_MinusOneOnlyIfComplete ==
    (out.op = "calc_normal_form" /\ ~out.panic) =>
        (out.num >= -1 /\ (out.num = -1 => IsComplete(tin)))

\* C4 witness: calc_normal_form has reported -1 for a complete table of 14 tiles
C4_ReportsMinusOne ==
    /\ out.op = "calc_normal_form"
    /\ ~out.panic
    /\ out.num = -1
    /\ Total(tin) = 14
    /\ IsComplete(tin)

\* C5: calc_seven_pairs returns (7 - pair + max(0, 7 - kind)) - 1, kind the
\* number of kinds held and pair the number of kinds held at least twice
C5_SevenPairsFormula ==
    IsQuery("SevenPairs") =>
        LET cnt == HandCounts(hand)
            kind == Cardinality({k \in Kinds : cnt[k] >= 1})
            pair == Cardinality({k \in Kinds : cnt[k] >= 2})
        IN  /\ ~out.panic
            /\ out.shanten = (7 - pair + (IF 7 - kind > 0 THEN 7 - kind ELSE 0)) - 1

\* the hands got from h by replacing one tile of a kind held once by one more
\* tile of another kind that h holds
Duplications(h) ==
    LET cnt == HandCounts(h)
    IN  {[h EXCEPT !.tiles[n] = k] :
            n \in {m \in DOMAIN h.tiles : cnt[h.tiles[m]] = 1},
            k \in {x \in Kinds : cnt[x] >= 1}}
        \ {h}

\* C6: replacing a singleton by a copy of a kind already held never gives a
\* larger seven-pairs shanten
C6_SevenPairsMonotonic ==
    IsQuery("SevenPairs") =>
        /\ ~out.panic
        /\ \A g \in Duplications(hand) :
              LET r == HandAnalyzer_calc_by_form(g, "SevenPairs")
              IN  ~r.panic /\ r.shanten <= out.shanten

\* the 13 terminal and honor kinds
Orphans == {M1, M9, P1, P9, S1, S9} \cup (Z1..Z7)

\* C7: calc_thirteen_orphens returns (14 - kind - p) - 1, kind the number of
\* the 13 terminal and honor kinds held, p = 1 if one of them is held twice
C7_ThirteenOrphansFormula ==
    IsQuery("ThirteenOrphens") =>
        LET cnt == HandCounts(hand)
            kind == Cardinality({k \in Orphans : cnt[k] >= 1})
            p == IF \E k \in Orphans : cnt[k] >= 2 THEN 1 ELSE 0
        IN  /\ ~out.panic
            /\ out.shanten = (14 - kind - p) - 1

\* C8: summarize_tiles returns a table of 34 slots whose slot of each kind is
\* the number of tiles of that kind in the hand
C8_SummaryCountsEveryTile ==
    (out.op = "summarize_tiles") =>
        /\ ~out.panic
        /\ DOMAIN out.vec = 0..(LEN - 1)
        /\ \A k \in DOMAIN out.vec : out.vec[k] = HandCounts(hand)[k]
        /\ SumOver(out.vec, 0, LEN - 1) = Len(hand.tiles) + Len(hand.drawn)

\* C9: every shanten query on a hand built by Hand::new returns a value
C9_QueriesReturn ==
    (out.op \in {"HandAnalyzer::calc", "HandAnalyzer::calc_by_form",
                 "Shanten::calc", "Shanten::calc_by_form"})
        => ~out.panic

\* C10: Hand::new panics and yields no hand unless it is given 13 tiles, and
\* with 13 tiles it yields the hand of those tiles, the drawn tile, no melds
C10_NewChecksThirteen ==
    (out.op = "Hand::new") =>
        IF Len(arg.tiles) # 13
        THEN out.panic /\ hand = NoHand
        ELSE /\ ~out.panic
             /\ hand = [tiles |-> arg.tiles, drawn |-> arg.drawn, meld |-> << >>]

\* C10 witness: Hand::new has been given 14 tiles and has panicked
C10_RejectsFourteen ==
    /\ out.op = "Hand::new"
    /\ Len(arg.tiles) = 14
    /\ out.panic
    /\ hand = NoHand

\* C11: every call of count_normal_shanten_by_recursive,
\* count_same_or_sequential_3 and count_2 returns with the table it was called
\* with, and after the head trials and the last search the table is the one
\* the extraction of the independent blocks left
C11_TableRestored ==
    (out.op = "calc_normal_form") =>
        (~out.panic /\ out.restored /\ out.final = out.extracted)

\* C11 witness: a search with a head trial and nested calls has returned with
\* the table restored
C11_SearchedAndRestored ==
    /\ out.op = "calc_normal_form"
    /\ ~out.panic
    /\ out.restored
    /\ out.final = out.extracted
    /\ \E k \in Kinds : out.extracted[k] >= 2
    /\ out.deepest >= 3

\* C12: every nested call of count_normal_shanten_by_recursive is made on a
\* table of counts holding exactly 3 (triplet, run) or 2 (pair, partial
\* sequence) tiles fewer than its caller's, the depth of the recursion is at
\* most one more than half the tiles searched, and calc_normal_form returns
C12_NestedCallsOnFewerTiles ==
    (out.op = "calc_normal_form") =>
        /\ ~out.panic
        /\ out.smaller
        /\ out.deepest <= 1 + (Total(out.extracted) \div 2)

\* C12 witness: a search on 14 tiles has gone four calls deep and returned
C12_DeepSearchReturned ==
    /\ out.op = "calc_normal_form"
    /\ ~out.panic
    /\ Total(tin) = 14
    /\ out.smaller
    /\ out.deepest >= 4



(***************************************************************************)
(* On a table of 34 slots (SpecTable) the two scans give the values of     *)
(* the formulas: what keeps the functions on a hand from returning them    *)
(* is summarize_tiles alone.                                               *)
(***************************************************************************)
\* the scan of calc_seven_pairs on a 34-slot table
TableSevenPairsFormula ==
    (out.op = "calc_seven_pairs") =>
        LET kind == Cardinality({k \in Kinds : tin[k] >= 1})
            pair == Cardinality({k \in Kinds : tin[k] >= 2})
        IN  /\ ~out.panic
            /\ out.num = (7 - pair + (IF 7 - kind > 0 THEN 7 - kind ELSE 0)) - 1

\* the scan of calc_thirteen_orphens on a 34-slot table
TableThirteenOrphansFormula ==
    (out.op = "calc_thirteen_orphens") =>
        LET kind == Cardinality({k \in Orphans : tin[k] >= 1})
            p == IF \E k \in Orphans : tin[k] >= 2 THEN 1 ELSE 0
        IN  /\ ~out.panic
            /\ out.num = (14 - kind - p) - 1

\* on a 34-slot table calc_normal_form does not panic
TableNormalFormReturns == (out.op = "calc_normal_form") => ~out.panic

\* the slots that the tests cs of a pass read around kind i lie in i's suit
TestsInSuit(i, cs) == \A n \in DOMAIN cs : InSuit(i, i + cs[n].off)

\* C14: the slots read and written by the three extraction passes around a
\* kind lie in the suit of that kind and in the table, and every run and
\* partial sequence taken by the search lies in one numeric suit
C14_BlocksStayInSuit ==
    /\ \A i \in Kinds :
          /\ TestsInSuit(i, ArmTests(i, T(0, "ge", 3)))
          /\ TestsInSuit(i, ArmTests(i, T(0, "eq", 1)))
    /\ \A n \in 1..Seq3Steps :
          TestsInSuit(Seq3J(n) + Seq3K(n), Seq3Tests(Seq3I(n), Seq3K(n)))
    /\ (out.op = "calc_normal_form") => (~out.panic /\ out.insuit)

\* C14 witness: a table with tiles on both sides of the border of two suits
\* (M9, P1, P2) has been searched, runs were extracted or taken, and all of
\* them lie in one suit
C14_SearchedAcrossBorder ==
    /\ out.op = "calc_normal_form"
    /\ ~out.panic
    /\ out.insuit
    /\ tin[M9] >= 1 /\ tin[P1] >= 1 /\ tin[P2] >= 1 /\ tin[P3] >= 1
    /\ out.deepest >= 2

\* C13: the least value of 8 - 2*block3 - block2 over the search of the table
\* left by the three extraction passes, the extracted blocks counted as
\* 3-blocks, is the least value over the search of the whole table
C13_ExtractionKeepsOptimum ==
    (out.op = "calc_normal_form") => (~out.panic /\ out.leaf = out.whole)

\* C13 witness: blocks of each kind were extracted (a triplet, a run and a
\* single tile), the search of the tiles left made nested calls, and the
\* least value is that of the search of the whole table
C13_ExtractedAndEqual ==
    /\ out.op = "calc_normal_form"
    /\ ~out.panic
    /\ out.independent_same3 >= 1
    /\ out.independent_sequential3 >= 1
    /\ out.independent_single >= 1
    /\ \E k \in Kinds : out.extracted[k] >= 1
    /\ out.deepest >= 2
    /\ out.leaf = out.whole

\* the first of SevenPairs, ThirteenOrphens, Normal whose value is the least
\* of the three values
FirstOfLeast(sp, to, normal) ==
    LET least == Min2(Min2(sp.shanten, to.shanten), normal.shanten)
    IN  IF sp.shanten = least THEN sp
        ELSE IF to.shanten = least THEN to
        ELSE normal

\* C15: calc(hand) reports the least of the three values and, of the forms
\* SevenPairs, ThirteenOrphens, Normal in this order, the first that has it
C15_ReportsFirstFormOfLeast ==
    (out.op = "HandAnalyzer::calc") =>
        LET sp == HandAnalyzer_calc_by_form(hand, "SevenPairs")
            to == HandAnalyzer_calc_by_form(hand, "ThirteenOrphens")
            normal == HandAnalyzer_calc_by_form(hand, "Normal")
        IN  /\ ~out.panic
            /\ ~sp.panic /\ ~to.panic /\ ~normal.panic
            /\ out.shanten = FirstOfLeast(sp, to, normal).shanten
            /\ out.form = FirstOfLeast(sp, to, normal).form

(***************************************************************************)
(* On a table of 34 slots (SpecTable) the min of min of calc, given the    *)
(* values of the three bodies, reports the first form that has the least   *)
(* value: what keeps calc from reporting it is summarize_tiles alone.      *)
(***************************************************************************)
\* the three values of a table, that of the normal form being given
TableCalc(normal) ==
    MinOfThree(Shaped(seven_pairs_of(tin), "SevenPairs"),
               Shaped(thirteen_orphens_of(tin), "ThirteenOrphens"),
               normal)

TableCalcPriority ==
    (out.op = "calc_normal_form") =>
        LET sp == Shaped(seven_pairs_of(tin), "SevenPairs")
            to == Shaped(thirteen_orphens_of(tin), "ThirteenOrphens")
            normal == Shaped(out, "Normal")
        IN  /\ ~TableCalc(normal).panic
            /\ TableCalc(normal).shanten = FirstOfLeast(sp, to, normal).shanten
            /\ TableCalc(normal).form = FirstOfLeast(sp, to, normal).form

\* tables on which two forms share the least value
TableCalcTie ==
    /\ out.op = "calc_normal_form"
    /\ ~out.panic
    /\ Shaped(seven_pairs_of(tin), "SevenPairs").shanten = out.num
    /\ TableCalc(Shaped(out, "Normal")).form = "SevenPairs"
    /\ TableCalc(Shaped(out, "Normal")).shanten = out.num

====
